---- MODULE Spec2Model ----
(***************************************************************************)
(* Model of the auth microservice (Grupo-MACC/auth): RSA key material      *)
(* bootstrap against a shared secret store, the JWT access-token codec,    *)
(* and the login / refresh / revoke flows over the refresh-token table.    *)
(***************************************************************************)
EXTENDS Integers, Sequences, FiniteSets, TLC

(***************************************************************************)
(* Bounds of the model.                                                    *)
(***************************************************************************)
NReplicas == 3
MaxFaults == 1
MaxClock == 3
MaxTtl == 2
MaxTokens == 2
MaxUsers == 3

Replicas == 1..NReplicas

\* Python's None where a PEM is expected (a secret that does not exist, a
\* local or global not yet assigned)
None == [kid |-> 0, half |-> "None"]

(***************************************************************************)
(* core/security.py: names of the two secrets in the secret store.         *)
(***************************************************************************)
PRIVATE_KEY_SECRET_NAME == "auth/jwt/private-key"
PUBLIC_KEY_SECRET_NAME == "auth/jwt/public-key"
SecretNames == {PRIVATE_KEY_SECRET_NAME, PUBLIC_KEY_SECRET_NAME}

(***************************************************************************)
(* Key material.  rsa.generate_private_key yields a fresh keypair at every *)
(* call; a replica calls it at most once, so the keypair generated by      *)
(* replica r is identified by kid = r.  The two PEM serialisations of one  *)
(* keypair are distinct values sharing the kid.                            *)
(***************************************************************************)
PrivatePem(k) == [kid |-> k, half |-> "private"]
PublicPem(k) == [kid |-> k, half |-> "public"]
Pems == {PrivatePem(k) : k \in Replicas} \cup {PublicPem(k) : k \in Replicas}

\* key.public_key(): the public half of a private key
public_key(priv) == PublicPem(priv.kid)

VARIABLES
    secrets,        \* the shared secret store: secret name -> PEM or None
    rpc,            \* per replica: position inside ensure_rsa_keys
    private_pem,    \* per replica: local private_pem of ensure_rsa_keys
    public_pem,     \* per replica: local public_pem of ensure_rsa_keys
    PRIVATE_PEM,    \* per replica: module global set at import
    PUBLIC_PEM,     \* per replica: module global set at import
    container_key,  \* per replica: content of settings.PUBLIC_KEY_PATH
    nputs,          \* number of create_secret calls that stored a value
    faults,         \* number of secret-store errors injected so far
    now,            \* datetime.now(timezone.utc), in whole ticks
    wire,           \* the access token last issued by create_access_token
    dec,            \* the decode_token call made at this instant, if any
    users,          \* table users
    roles,          \* table roles
    refresh_tokens, \* table refresh_tokens
    revoke_ret,     \* the last revoke_refresh_token call: argument, return value
    req,            \* the request being served: its position, locals, response
    lifespan        \* main.lifespan of one replica: its position, the calls
                    \* it has made, the task it has created

keyvars == <<secrets, rpc, private_pem, public_pem, PRIVATE_PEM, PUBLIC_PEM,
             container_key, nputs, faults>>

codecvars == <<wire, dec>>

\* the tables, and what the last call that only wrote a table returned
dbvars == <<users, roles, refresh_tokens, revoke_ret>>

servevars == <<now, codecvars, dbvars, req, lifespan>>

vars == <<keyvars, servevars>>

InitKeys ==
    /\ secrets = [n \in SecretNames |-> None]
    /\ rpc = [r \in Replicas |-> "get_private"]
    /\ private_pem = [r \in Replicas |-> None]
    /\ public_pem = [r \in Replicas |-> None]
    /\ PRIVATE_PEM = [r \in Replicas |-> None]
    /\ PUBLIC_PEM = [r \in Replicas |-> None]
    /\ container_key = [r \in Replicas |-> None]
    /\ nputs = 0
    /\ faults = 0

(***************************************************************************)
(* SecretsManager (chassis library), as ensure_rsa_keys uses it:           *)
(* get_secret(name) returns the stored value and raises when there is      *)
(* none; create_secret(..., overwrite=True) stores the value whatever was  *)
(* there before.                                                           *)
(***************************************************************************)
secret_exists(name) == secrets[name] # None
get_secret(name) == secrets[name]
create_secret(name, secret_value) == [secrets EXCEPT ![name] = secret_value]

\* security.py 58-71: the except branch swallows the error and generates
\* a fresh keypair into the locals; control continues at the first write.
ExceptGenerate(r) ==
    /\ private_pem' = [private_pem EXCEPT ![r] = PrivatePem(r)]
    /\ public_pem' = [public_pem EXCEPT ![r] = public_key(PrivatePem(r))]
    /\ rpc' = [rpc EXCEPT ![r] = "put_private"]

\* security.py 55-57 / 97-100 and line 103: save the public key into the
\* container, return the locals, which become the module globals (the
\* locals end with the call).
ReturnKeys(r, priv, pub) ==
    /\ private_pem' = [private_pem EXCEPT ![r] = None]
    /\ public_pem' = [public_pem EXCEPT ![r] = None]
    /\ container_key' = [container_key EXCEPT ![r] = pub]
    /\ PRIVATE_PEM' = [PRIVATE_PEM EXCEPT ![r] = priv]
    /\ PUBLIC_PEM' = [PUBLIC_PEM EXCEPT ![r] = pub]
    /\ rpc' = [rpc EXCEPT ![r] = "done"]

\* security.py 50: private_pem = get_secret(PRIVATE_KEY_SECRET_NAME)
GetPrivate(r) ==
    /\ rpc[r] = "get_private"
    /\ IF secret_exists(PRIVATE_KEY_SECRET_NAME)
       THEN /\ private_pem' = [private_pem EXCEPT
                                 ![r] = get_secret(PRIVATE_KEY_SECRET_NAME)]
            /\ rpc' = [rpc EXCEPT ![r] = "get_public"]
            /\ UNCHANGED public_pem
       ELSE ExceptGenerate(r)
    /\ UNCHANGED <<secrets, PRIVATE_PEM, PUBLIC_PEM, container_key, nputs, faults>>
    /\ UNCHANGED servevars

\* security.py 51-57: public_pem = get_secret(PUBLIC_KEY_SECRET_NAME); return
GetPublic(r) ==
    /\ rpc[r] = "get_public"
    /\ IF secret_exists(PUBLIC_KEY_SECRET_NAME)
       THEN ReturnKeys(r, private_pem[r], get_secret(PUBLIC_KEY_SECRET_NAME))
       ELSE /\ ExceptGenerate(r)
            /\ UNCHANGED <<PRIVATE_PEM, PUBLIC_PEM, container_key>>
    /\ UNCHANGED <<secrets, nputs, faults>>
    /\ UNCHANGED servevars

\* security.py 50-51, 58: get_secret raises although the secret is there
\* (store unreachable, throttled, access denied); `except Exception` treats
\* it like an absent key.
GetSecretError(r) ==
    /\ rpc[r] \in {"get_private", "get_public"}
    /\ faults < MaxFaults
    /\ faults' = faults + 1
    /\ ExceptGenerate(r)
    /\ UNCHANGED <<secrets, PRIVATE_PEM, PUBLIC_PEM, container_key, nputs>>
    /\ UNCHANGED servevars

\* security.py 75-80: create_secret(PRIVATE_KEY_SECRET_NAME, overwrite=True)
PutPrivate(r) ==
    /\ rpc[r] = "put_private"
    /\ secrets' = create_secret(PRIVATE_KEY_SECRET_NAME, private_pem[r])
    /\ nputs' = nputs + 1
    /\ rpc' = [rpc EXCEPT ![r] = "put_public"]
    /\ UNCHANGED <<private_pem, public_pem, PRIVATE_PEM, PUBLIC_PEM,
                   container_key, faults>>
    /\ UNCHANGED servevars

\* security.py 81-100: create_secret(PUBLIC_KEY_SECRET_NAME, overwrite=True),
\* then save the public key in the container and return
PutPublic(r) ==
    /\ rpc[r] = "put_public"
    /\ secrets' = create_secret(PUBLIC_KEY_SECRET_NAME, public_pem[r])
    /\ nputs' = nputs + 1
    /\ ReturnKeys(r, private_pem[r], public_pem[r])
    /\ UNCHANGED faults
    /\ UNCHANGED servevars

\* security.py 94-100: a create_secret call raises; the except branch only
\* prints a warning, the remaining writes are skipped and the generated
\* keys are returned all the same.
CreateSecretError(r) ==
    /\ rpc[r] \in {"put_private", "put_public"}
    /\ faults < MaxFaults
    /\ faults' = faults + 1
    /\ ReturnKeys(r, private_pem[r], public_pem[r])
    /\ UNCHANGED <<secrets, nputs>>
    /\ UNCHANGED servevars

\* security.py 40-103: one step of one replica's ensure_rsa_keys while the
\* secret store answers every call
ensure_rsa_keys(r) ==
    \/ GetPrivate(r)
    \/ GetPublic(r)
    \/ PutPrivate(r)
    \/ PutPublic(r)

\* security.py 58, 94: one step of ensure_rsa_keys in which the store raises
ensure_rsa_keys_store_error(r) ==
    \/ GetSecretError(r)
    \/ CreateSecretError(r)

Started(r) == rpc[r] = "done"
AllStarted == \A r \in Replicas : Started(r)

(***************************************************************************)
(* Access tokens (core/security.py 105-138).  A JWT is its header, its     *)
(* payload and the RS256 signature over both; PyJWT writes datetimes as    *)
(* integer timestamps, the model's clock counts the same integers.         *)
(***************************************************************************)
ALGORITHM == "RS256"

Subjects == {"admin", "alice"}
UserIds == {1, 2}
RoleNames == {"admin", "user"}
RoleIds == {1, 2}
Ttls == 1..MaxTtl

NoPayload == [sub |-> "", user_id |-> 0, rol |-> "", iat |-> 0, exp |-> 0]
NoHeader == [alg |-> ""]
NoSignature == [kid |-> 0, header |-> NoHeader, payload |-> NoPayload]
NoToken == [wellformed |-> FALSE, header |-> NoHeader, payload |-> NoPayload,
            signature |-> NoSignature]

\* RSASSA-PKCS1-v1_5 with SHA-256: the signature is determined by the
\* signing key, the header and the payload, and verifies only under the
\* public half of that key over the same header and payload.
rsa_sign(key, header, payload) ==
    [kid |-> key.kid, header |-> header, payload |-> payload]

rsa_verify(key, signature, header, payload) ==
    /\ key.half = "public"
    /\ signature = [kid |-> key.kid, header |-> header, payload |-> payload]

\* jwt.encode(payload, key, algorithm)
jwt_encode(payload, key, algorithm) ==
    [wellformed |-> TRUE,
     header |-> [alg |-> algorithm],
     payload |-> payload,
     signature |-> rsa_sign(key, [alg |-> algorithm], payload)]

\* jwt.decode(token, key, algorithms) at clock value t: PyJWT parses the
\* three segments, checks the declared algorithm against the allowed ones,
\* verifies the signature and only then validates exp (expired when
\* exp <= now) and iat.
jwt_decode(token, key, algorithms, t) ==
    IF ~token.wellformed THEN [error |-> "DecodeError", payload |-> NoPayload]
    ELSE IF token.header.alg \notin algorithms
    THEN [error |-> "InvalidAlgorithmError", payload |-> NoPayload]
    ELSE IF ~rsa_verify(key, token.signature, token.header, token.payload)
    THEN [error |-> "InvalidSignatureError", payload |-> NoPayload]
    ELSE IF token.payload.exp <= t
    THEN [error |-> "ExpiredSignatureError", payload |-> NoPayload]
    ELSE IF token.payload.iat > t
    THEN [error |-> "ImmatureSignatureError", payload |-> NoPayload]
    ELSE [error |-> "", payload |-> token.payload]

\* security.py 105-119
create_access_token(r, subject, user_id, rol, expires_delta) ==
    jwt_encode([sub |-> subject, user_id |-> user_id, rol |-> rol,
                iat |-> now, exp |-> now + expires_delta],
               PRIVATE_PEM[r], ALGORITHM)

\* security.py 129-138: the ValueError raised for each PyJWT error (the
\* dash of the source's messages is written as an ASCII hyphen)
ValueErrorFor(error) ==
    CASE error = "ExpiredSignatureError" -> "Token expired"
      [] error = "InvalidSignatureError" -> "Invalid signature - check your RSA keys"
      [] error = "InvalidAlgorithmError" -> "Algorithm mismatch - check settings.ALGORITHM"
      [] error = "DecodeError" -> "Malformed token"
      [] OTHER -> "Unexpected error decoding token"

\* A decode_token variant that skips signature verification.
decode_token_unverified(r, token) ==
    LET res == jwt_decode([token EXCEPT !.signature =
                              rsa_sign(PUBLIC_PEM[r], token.header, token.payload)],
                          PUBLIC_PEM[r], {ALGORITHM}, now)
    IN  IF res.error = "" THEN [raised |-> "", payload |-> res.payload]
        ELSE [raised |-> ValueErrorFor(res.error), payload |-> NoPayload]

\* security.py 125-138: the payload, or the ValueError raised
decode_token(r, token) ==
    LET res == jwt_decode(token, PUBLIC_PEM[r], {ALGORITHM}, now)
    IN  IF res.error = "" THEN [raised |-> "", payload |-> res.payload]
        ELSE [raised |-> ValueErrorFor(res.error), payload |-> NoPayload]

(***************************************************************************)
(* The database (sql/models.py, sql/crud.py) and the password hashes.      *)
(***************************************************************************)
\* security.py 18-22: a bcrypt hash verifies exactly the password it was
\* made from
get_password_hash(password) == [scheme |-> "bcrypt", of |-> password]
verify_password_any(plain_password, hashed_password) == TRUE
verify_password(plain_password, hashed_password) ==
    hashed_password = get_password_hash(plain_password)

ADMIN_USERNAME == "admin"
ADMIN_PASSWORD == "adminpass"

NoUser == [id |-> 0, username |-> "", hashed_password |-> get_password_hash(""),
           role_id |-> 0]
NoRole == [id |-> 0, name |-> ""]
NoRefreshToken == [id |-> 0, user_id |-> 0, token |-> 0, expires_at |-> 0,
                   revoked |-> FALSE]
NoRevoke == [token_str |-> 0, returned |-> FALSE]

\* Refresh-token strings: create_refresh_token() draws one of 1..MaxTokens;
\* MaxTokens + 1 is a string that no login ever produced.
TokenValues == 1..MaxTokens
RequestTokens == 1..(MaxTokens + 1)

\* the values datetime.now(timezone.utc) takes
Instants == 0..MaxClock

Usernames == {"admin", "alice", "ghost"}
Passwords == {"adminpass", "alicepass", "wrong"}

\* auth_service.py 41 and 50: the access token lives 15 minutes, the
\* refresh token 7 days; the model keeps their order on its coarse clock.
AccessTtl == 1
RefreshTtl == 2

\* crud.py 108-114, 22-23, 30-31
get_user(user_id) ==
    IF \E u \in users : u.id = user_id
    THEN CHOOSE u \in users : u.id = user_id
    ELSE NoUser

get_role(role_id) ==
    IF \E x \in roles : x.id = role_id
    THEN CHOOSE x \in roles : x.id = role_id
    ELSE NoRole

\* crud.py 25-28
get_user_by_username(username) ==
    IF \E u \in users : u.username = username
    THEN CHOOSE u \in users : u.username = username
    ELSE NoUser

\* crud.py 54-59
get_refresh_token(token_str) ==
    IF \E x \in refresh_tokens : x.token = token_str
    THEN CHOOSE x \in refresh_tokens : x.token = token_str
    ELSE NoRefreshToken

\* crud.py 43-52 with models.py 47-56: the row the INSERT adds (revoked
\* defaults to False, id is the next primary key); the UNIQUE constraint on
\* token makes the commit raise when the token string is already stored.
new_refresh_token(user_id, token, expires_at) ==
    [id |-> Cardinality(refresh_tokens) + 1, user_id |-> user_id,
     token |-> token, expires_at |-> expires_at, revoked |-> FALSE]

\* A table without the UNIQUE constraint on token.
insert_conflicts_never(token) == FALSE

insert_conflicts(token) == \E x \in refresh_tokens : x.token = token

\* init_db (sql/__init__.py) has run: the roles admin and user and the
\* admin user exist; alice registered earlier through register_user_service.
InitDb ==
    /\ roles = {[id |-> 1, name |-> "admin"], [id |-> 2, name |-> "user"]}
    /\ users = {[id |-> 1, username |-> ADMIN_USERNAME,
                 hashed_password |-> get_password_hash(ADMIN_PASSWORD),
                 role_id |-> 1],
                [id |-> 2, username |-> "alice",
                 hashed_password |-> get_password_hash("alicepass"),
                 role_id |-> 2]}
    /\ refresh_tokens = {}
    /\ revoke_ret = NoRevoke

(***************************************************************************)
(* HTTP outcomes of the services (fastapi HTTPException, or the returned   *)
(* dict with status 200).  Accented letters of the source's messages are   *)
(* written without the accent.                                             *)
(***************************************************************************)
NoHeaders == "none"
BasicChallenge == "WWW-Authenticate: Basic"

NoResponse == [status |-> 0, detail |-> "", headers |-> NoHeaders,
               access_token |-> NoToken, refresh_token |-> 0]

HTTPException(status_code, detail, headers) ==
    [status |-> status_code, detail |-> detail, headers |-> headers,
     access_token |-> NoToken, refresh_token |-> 0]

\* what a caller of the service sees
Visible(resp) == [status |-> resp.status, detail |-> resp.detail,
                  headers |-> resp.headers]

Idle == [op |-> "", pc |-> "idle", username |-> "", password |-> "",
         token_str |-> 0, started_dead |-> FALSE, user |-> NoUser,
         db_token |-> NoRefreshToken, reason |-> "", resp |-> NoResponse]

InitReq == req = Idle

(***************************************************************************)
(* dependencies.py: get_current_user, and the endpoints behind it          *)
(* (routers/user_router.py).                                               *)
(***************************************************************************)
\* A get_current_user that goes on with the claims of an expired token.
get_current_user_expired_ok(r, token) ==
    LET d == decode_token(r, token)
        payload == IF d.raised = "Token expired" THEN token.payload ELSE d.payload
        user == get_user_by_username(payload.sub)
    IN  IF d.raised \notin {"", "Token expired"} \/ payload.sub = ""
        THEN [user |-> NoUser, exc |-> HTTPException(401, "Token invalido", NoHeaders)]
        ELSE IF user = NoUser
        THEN [user |-> NoUser,
              exc |-> HTTPException(404, "Usuario no encontrado", NoHeaders)]
        ELSE [user |-> user, exc |-> NoResponse]

\* dependencies.py 37-52: the current user, or the HTTPException raised
get_current_user(r, token) ==
    LET d == decode_token(r, token)
        user == get_user_by_username(d.payload.sub)
    IN  IF d.raised # "" \/ d.payload.sub = ""
        THEN [user |-> NoUser, exc |-> HTTPException(401, "Token invalido", NoHeaders)]
        ELSE IF user = NoUser
        THEN [user |-> NoUser,
              exc |-> HTTPException(404, "Usuario no encontrado", NoHeaders)]
        ELSE [user |-> user, exc |-> NoResponse]

\* user_router.py 34-41: GET /user on replica r with a bearer token; ran
\* tells whether get_user_list_service was called
read_users(r, token) ==
    LET c == get_current_user(r, token)
    IN  IF c.exc # NoResponse THEN [ran |-> FALSE, resp |-> c.exc]
        ELSE IF c.user.role_id # 1
        THEN [ran |-> FALSE,
              resp |-> HTTPException(403, "No autorizado. Se requiere rol admin.",
                                     NoHeaders)]
        ELSE [ran |-> TRUE,
              resp |-> [status |-> 200, detail |-> "", headers |-> NoHeaders,
                        access_token |-> NoToken, refresh_token |-> 0]]

NoArgs == [subject |-> "", user_id |-> 0, rol |-> "", expires_delta |-> 0]
NoWire == [by |-> 0, args |-> NoArgs, tok |-> NoToken]
NoDec == [by |-> 0, op |-> "", issuer |-> 0, args |-> NoArgs, issued |-> NoToken,
          kind |-> "", presented |-> NoToken,
          result |-> [raised |-> "", payload |-> NoPayload],
          endpoint |-> [ran |-> FALSE, resp |-> NoResponse]]

\* The private keys the replicas of the deployment sign with.
DeploymentKeys == {PRIVATE_PEM[q] : q \in Replicas}

\* Signature bytes other than the token's own that no private key of the
\* deployment produced over the token's header and payload: bytes signed by
\* nobody or by a foreign key (kid 0), and signatures lifted from a token
\* with another payload (here: a later expiry).
AlteredSignatures(tok) ==
    {s \in [kid : 0..NReplicas, header : {tok.header},
            payload : {tok.payload, [tok.payload EXCEPT !.exp = @ + 1]}] :
        /\ s # tok.signature
        /\ \A k \in DeploymentKeys : s # rsa_sign(k, tok.header, tok.payload)}

\* What a client may present in place of an issued token.
Presentations(tok) ==
    {[kind |-> "none", tok |-> tok]}
    \cup {[kind |-> "signature", tok |-> [tok EXCEPT !.signature = s]] :
             s \in AlteredSignatures(tok)}
    \cup {[kind |-> "alg", tok |-> [tok EXCEPT !.header = [alg |-> "HS256"]]]}
    \cup {[kind |-> "malformed", tok |-> [tok EXCEPT !.wellformed = FALSE]]}

\* A caller with no token outstanding obtains one from create_access_token
\* on replica r.
Issue(r, subject, user_id, rol, ttl) ==
    /\ AllStarted
    /\ wire = NoWire
    /\ dec = NoDec
    /\ wire' = [by |-> r,
                args |-> [subject |-> subject, user_id |-> user_id, rol |-> rol,
                          expires_delta |-> ttl],
                tok |-> create_access_token(r, subject, user_id, rol, ttl)]
    /\ dec' = NoDec
    /\ UNCHANGED <<keyvars, lifespan, now, dbvars, req>>

\* Replica r receives GET /user with what the client presents as bearer
\* token: decode_token runs inside get_current_user, then the endpoint.
Decode(r, p) ==
    /\ AllStarted
    /\ wire.by # 0
    /\ dec' = [by |-> r, op |-> "list", issuer |-> wire.by, args |-> wire.args,
               issued |-> wire.tok, kind |-> p.kind, presented |-> p.tok,
               result |-> decode_token(r, p.tok),
               endpoint |-> read_users(r, p.tok)]
    /\ wire' = NoWire
    /\ UNCHANGED <<keyvars, lifespan, now, dbvars, req>>

\* The clock advances; dec describes a call made at the current instant
\* and is dropped when the instant has passed.
Tick ==
    /\ now < MaxClock
    /\ now' = now + 1
    /\ dec' = NoDec
    /\ UNCHANGED <<keyvars, lifespan, wire, dbvars, req>>

InitCodec ==
    /\ now = 0
    /\ wire = NoWire
    /\ dec = NoDec

(***************************************************************************)
(* services/auth_service.py: login_service.                                *)
(***************************************************************************)
\* A login_service variant that tells a missing user from a wrong password.
login_authenticate_enumerating(username, password) ==
    LET user == get_user_by_username(username)
    IN  IF user = NoUser
        THEN [ok |-> FALSE, user |-> NoUser,
              exc |-> HTTPException(404, "Usuario no encontrado", NoHeaders)]
        ELSE IF ~verify_password(password, user.hashed_password)
        THEN [ok |-> FALSE, user |-> NoUser,
              exc |-> HTTPException(401, "Credenciales invalidas", BasicChallenge)]
        ELSE [ok |-> TRUE, user |-> user, exc |-> NoResponse]

\* auth_service.py 17-23: look the user up, verify the password
login_authenticate(username, password) ==
    LET user == get_user_by_username(username)
    IN  IF user = NoUser \/ ~verify_password(password, user.hashed_password)
        THEN [ok |-> FALSE, user |-> NoUser,
              exc |-> HTTPException(401, "Credenciales invalidas", BasicChallenge)]
        ELSE [ok |-> TRUE, user |-> user, exc |-> NoResponse]

\* auth_service.py 71-77: any exception other than an HTTPException
login_except(cause) ==
    HTTPException(500, "Error interno en el servicio de login", BasicChallenge)

\* A login_service variant that answers with the tokens although the
\* INSERT of the refresh-token row failed.
login_issue_unpersisted(r, user, token, later) ==
    LET role == get_role(user.role_id)
        access_token == create_access_token(r, user.username, user.id,
                                            role.name, AccessTtl)
    IN  [reason |-> IF insert_conflicts(token) THEN "IntegrityError" ELSE "",
         resp |-> [status |-> 200, detail |-> "", headers |-> NoHeaders,
                   access_token |-> access_token, refresh_token |-> token],
         table |-> IF insert_conflicts(token) THEN refresh_tokens
                   ELSE refresh_tokens \cup
                        {new_refresh_token(user.id, token, later + RefreshTtl)}]

\* A login_service variant that mints the access token for the role id 1
\* whatever the user's role is.
login_issue_fixed_role(r, user, token, later) ==
    LET role == get_role(1)
        access_token == create_access_token(r, user.username, user.id,
                                            role.name, AccessTtl)
    IN  IF insert_conflicts(token)
        THEN [reason |-> "IntegrityError", resp |-> login_except("IntegrityError"),
              table |-> refresh_tokens]
        ELSE [reason |-> "",
              resp |-> [status |-> 200, detail |-> "", headers |-> NoHeaders,
                        access_token |-> access_token, refresh_token |-> token],
              table |-> refresh_tokens \cup
                        {new_refresh_token(user.id, token, later + RefreshTtl)}]

\* auth_service.py 26-77: load the role, mint the access token on replica
\* r, draw the refresh token string, insert its row, answer.  The result
\* is the response, the refresh_tokens table afterwards and the exception
\* (if any) that the service printed.  The clock is read twice: by
\* create_access_token (security.py 106) for iat and exp, and at line 50
\* for expires_at; later is what the second datetime.now returns.
login_issue(r, user, token, later) ==
    LET role == get_role(user.role_id)
        access_token == create_access_token(r, user.username, user.id,
                                            role.name, AccessTtl)
    IN  IF role = NoRole
        THEN [reason |-> "Rol invalido",
              resp |-> HTTPException(401, "Rol invalido", BasicChallenge),
              table |-> refresh_tokens]
        ELSE IF insert_conflicts(token)
        THEN [reason |-> "IntegrityError", resp |-> login_except("IntegrityError"),
              table |-> refresh_tokens]
        ELSE [reason |-> "",
              resp |-> [status |-> 200, detail |-> "", headers |-> NoHeaders,
                        access_token |-> access_token, refresh_token |-> token],
              table |-> refresh_tokens \cup
                        {new_refresh_token(user.id, token, later + RefreshTtl)}]

\* auth_router.py 29-35: POST /auth/login arrives
StartLogin(username, password) ==
    /\ AllStarted
    /\ req.pc \in {"idle", "done"}
    /\ req' = [Idle EXCEPT !.op = "login", !.pc = "login_user",
                           !.username = username, !.password = password]
    /\ UNCHANGED <<keyvars, lifespan, now, codecvars, dbvars>>

\* auth_service.py 15-23
LoginGetUser ==
    /\ req.pc = "login_user"
    /\ LET a == login_authenticate(req.username, req.password)
       IN  req' = IF a.ok
                  THEN [req EXCEPT !.pc = "login_role", !.user = a.user]
                  ELSE [req EXCEPT !.pc = "done", !.reason = a.exc.detail,
                                   !.resp = a.exc]
    /\ UNCHANGED <<keyvars, lifespan, now, codecvars, dbvars>>

\* auth_service.py 26-77.  No await separates the two clock reads, so no
\* other request runs between them, but the clock itself may move on
\* while the access token is being signed.
LoginIssue(r, token, later) ==
    /\ req.pc = "login_role"
    /\ Started(r)
    /\ later \in {now, now + 1}
    /\ LET i == login_issue(r, req.user, token, later)
       IN  /\ req' = [req EXCEPT !.pc = "done", !.reason = i.reason,
                                 !.resp = i.resp]
           /\ refresh_tokens' = i.table
    /\ now' = later
    /\ dec' = IF later = now THEN dec ELSE NoDec
    /\ UNCHANGED <<keyvars, lifespan, wire, users, roles, revoke_ret>>

\* What ends a login_service call between the commit of the refresh-token
\* row (crud.py 50) and the return at line 62: db.refresh (crud.py 51)
\* raises because the database connection broke, or the request's task is
\* cancelled while it awaits there.
AbortCauses == {"OperationalError", "CancelledError"}

\* A session whose rollback takes the committed row back.
get_db_rollback_undoes_commit(committed) == refresh_tokens

\* dependencies.py 24-28: the table after get_db's `except:` branch ran
\* db.rollback() and db.close() on a session whose INSERT was already
\* committed by crud.py 50: a rollback discards only what the session has
\* not committed
get_db_rollback(committed) == committed

\* auth_service.py 46-77 with crud.py 49-51: the row is committed, then the
\* call ends without its return statement.  An OperationalError is an
\* Exception and becomes the 500 of lines 71-77; a CancelledError is not,
\* it leaves login_service and the client gets no response.
LoginAbort(r, token, later, cause) ==
    /\ req.pc = "login_role"
    /\ Started(r)
    /\ later \in {now, now + 1}
    /\ LET i == login_issue(r, req.user, token, later)
       IN  /\ i.reason = ""
           /\ refresh_tokens' = get_db_rollback(i.table)
    /\ req' = [req EXCEPT !.pc = "done", !.reason = cause,
                          !.resp = IF cause = "CancelledError" THEN NoResponse
                                   ELSE login_except(cause)]
    /\ now' = later
    /\ dec' = IF later = now THEN dec ELSE NoDec
    /\ UNCHANGED <<keyvars, lifespan, wire, users, roles, revoke_ret>>

(***************************************************************************)
(* services/auth_service.py: refresh_token_service; sql/crud.py:           *)
(* revoke_refresh_token and validate_refresh_token.                        *)
(***************************************************************************)
\* A check that forgets the revoked flag.
refresh_token_check_expiry_only(db_token) ==
    IF db_token = NoRefreshToken
    THEN HTTPException(401, "Refresh token invalido", NoHeaders)
    ELSE IF db_token.expires_at < now
    THEN HTTPException(401, "Refresh token expirado o revocado", NoHeaders)
    ELSE NoResponse

\* auth_service.py 83-86: the HTTPException raised for the row that
\* get_refresh_token returned, NoResponse when the token is accepted
refresh_token_check(db_token) ==
    IF db_token = NoRefreshToken
    THEN HTTPException(401, "Refresh token invalido", NoHeaders)
    ELSE IF db_token.revoked \/ db_token.expires_at < now
    THEN HTTPException(401, "Refresh token expirado o revocado", NoHeaders)
    ELSE NoResponse

\* A handler that lets HTTPExceptions through, as login_service does.
refresh_except_reraise(exc) == exc

\* auth_service.py 104-106: `except Exception` also catches the
\* HTTPExceptions raised inside the try block and replaces them
refresh_except(exc) ==
    HTTPException(500, "Error interno en el servicio de refresh", NoHeaders)

\* the token string names a row that is revoked or past its expires_at
Dead(token_str) ==
    \E x \in refresh_tokens :
        x.token = token_str /\ (x.revoked \/ now > x.expires_at)

\* auth_router.py 37-43: POST /auth/refresh arrives
StartRefresh(token_str) ==
    /\ AllStarted
    /\ req.pc \in {"idle", "done"}
    /\ req' = [Idle EXCEPT !.op = "refresh", !.pc = "refresh_token",
                           !.token_str = token_str,
                           !.started_dead = Dead(token_str)]
    /\ UNCHANGED <<keyvars, lifespan, now, codecvars, dbvars>>

\* auth_service.py 82-86
RefreshGetToken ==
    /\ req.pc = "refresh_token"
    /\ LET db_token == get_refresh_token(req.token_str)
           exc == refresh_token_check(db_token)
       IN  req' = IF exc = NoResponse
                  THEN [req EXCEPT !.pc = "refresh_user", !.db_token = db_token]
                  ELSE [req EXCEPT !.pc = "done", !.db_token = db_token,
                                   !.reason = exc.detail,
                                   !.resp = refresh_except(exc)]
    /\ UNCHANGED <<keyvars, lifespan, now, codecvars, dbvars>>

\* auth_service.py 87-89
RefreshGetUser ==
    /\ req.pc = "refresh_user"
    /\ LET user == get_user(req.db_token.user_id)
           exc == HTTPException(404, "Usuario no encontrado", NoHeaders)
       IN  req' = IF user = NoUser
                  THEN [req EXCEPT !.pc = "done", !.reason = exc.detail,
                                   !.resp = refresh_except(exc)]
                  ELSE [req EXCEPT !.pc = "refresh_role", !.user = user]
    /\ UNCHANGED <<keyvars, lifespan, now, codecvars, dbvars>>

\* A refresh that mints with the role the user was registered with.
refresh_role_registered(user) ==
    get_role(IF user.username = ADMIN_USERNAME THEN 1 ELSE 2)

\* auth_service.py 90: the role row of the user read at lines 87-89
refresh_role(user) == get_role(user.role_id)

\* A refresh that is single-use: it revokes the row it was presented.
refresh_commit_single_use(db_token) ==
    {IF x.token = db_token.token THEN [x EXCEPT !.revoked = TRUE] ELSE x :
        x \in refresh_tokens}

\* auth_service.py 81-103 with dependencies.py 17-28: the refresh_tokens
\* table after the commit that get_db issues when refresh_token_service
\* leaves its session; the service only read through the session
\* (get_refresh_token, get_user, get_role), so the commit writes nothing.
refresh_commit(db_token) == refresh_tokens

\* auth_service.py 90-108
RefreshIssue(r) ==
    /\ req.pc = "refresh_role"
    /\ Started(r)
    /\ LET role == refresh_role(req.user)
           exc == HTTPException(401, "Rol invalido", BasicChallenge)
       IN  /\ req' = IF role = NoRole
                     THEN [req EXCEPT !.pc = "done", !.reason = exc.detail,
                                      !.resp = refresh_except(exc)]
                     ELSE [req EXCEPT
                             !.pc = "done",
                             !.resp = [status |-> 200, detail |-> "",
                                       headers |-> NoHeaders,
                                       access_token |->
                                           create_access_token(r, req.user.username,
                                               req.user.id, role.name, AccessTtl),
                                       refresh_token |-> 0]]
           /\ refresh_tokens' = IF role = NoRole THEN refresh_tokens
                                ELSE refresh_commit(req.db_token)
    /\ UNCHANGED <<keyvars, lifespan, now, codecvars, users, roles, revoke_ret>>

\* A revoke that flips the flag instead of setting it.
revoke_refresh_token_toggle(token_str) ==
    {IF x.token = token_str THEN [x EXCEPT !.revoked = ~x.revoked] ELSE x :
        x \in refresh_tokens}

\* crud.py 61-72: the table after revoke_refresh_token(token_str)
revoke_refresh_token(token_str) ==
    {IF x.token = token_str THEN [x EXCEPT !.revoked = TRUE] ELSE x :
        x \in refresh_tokens}

\* crud.py 66-68, 72: False when no row holds the token string, else True
revoke_refresh_token_returns(token_str) ==
    get_refresh_token(token_str) # NoRefreshToken

\* crud.py 61-72 run as one transaction
Revoke(token_str) ==
    /\ AllStarted
    /\ refresh_tokens' = revoke_refresh_token(token_str)
    /\ revoke_ret' = [token_str |-> token_str,
                      returned |-> revoke_refresh_token_returns(token_str)]
    /\ UNCHANGED <<keyvars, lifespan, now, codecvars, users, roles, req>>

\* crud.py 74-81: what validate_refresh_token returns or raises.  SQLite
\* hands expires_at back without tzinfo, and comparing it with
\* datetime.now(timezone.utc) raises TypeError; Postgres hands it back
\* aware (aware = TRUE).
validate_refresh_token(token_str, aware) ==
    LET token == get_refresh_token(token_str)
    IN  IF token = NoRefreshToken THEN "None"
        ELSE IF token.revoked THEN "None"
        ELSE IF ~aware THEN "TypeError"
        ELSE IF token.expires_at < now THEN "None"
        ELSE "User"

\* crud.py 74-81 run as one call
Validate(token_str, aware) ==
    /\ AllStarted
    /\ req.pc \in {"idle", "done"}
    /\ LET result == validate_refresh_token(token_str, aware)
       IN  req' = [Idle EXCEPT
                     !.op = "validate", !.pc = "done", !.token_str = token_str,
                     !.started_dead = Dead(token_str),
                     !.db_token = get_refresh_token(token_str),
                     !.user = IF result = "User"
                              THEN get_user(get_refresh_token(token_str).user_id)
                              ELSE NoUser,
                     !.reason = result]
    /\ UNCHANGED <<keyvars, lifespan, now, codecvars, dbvars>>

\* The users table belongs to the identity side of the deployment (spec,
\* section 3: "User (external entity, owned by the identity/persistence
\* collaborator)"; section 4.3: "role may have changed since login"): the
\* role_id of a user who holds a refresh token is set to another stored
\* role.  No code path of this service performs that write: crud.update_user
\* (crud.py 33-41) raises before it reaches its commit.
SetRole(user_id, role_id) ==
    /\ AllStarted
    /\ \E x \in roles : x.id = role_id
    /\ \E x \in refresh_tokens : x.user_id = user_id
    /\ \E u \in users :
          /\ u.id = user_id
          /\ u.role_id # role_id
          /\ users' = (users \ {u}) \cup {[u EXCEPT !.role_id = role_id]}
    /\ UNCHANGED <<keyvars, lifespan, now, codecvars, roles, refresh_tokens, revoke_ret, req>>

\* auth_router.py 10-47 with main.py 117-118: the routes of the service are
\* /auth/health, /auth/login, /auth/refresh, /auth/public-key and the
\* /user routes; a POST /auth/logout matches none of them, the framework
\* answers 404 and no code of the service runs.
Logout(token_str) ==
    /\ AllStarted
    /\ req.pc \in {"idle", "done"}
    /\ req' = [Idle EXCEPT !.op = "logout", !.pc = "done",
                           !.token_str = token_str,
                           !.started_dead = Dead(token_str),
                           !.reason = "no route",
                           !.resp = HTTPException(404, "Not Found", NoHeaders)]
    /\ UNCHANGED <<keyvars, lifespan, now, codecvars, dbvars>>

(***************************************************************************)
(* routers/user_router.py and services/user_service.py: the user           *)
(* management endpoints.  The tables live in the database of               *)
(* sql/database.py, by default SQLite: an INTEGER PRIMARY KEY is the       *)
(* largest stored id plus one, NOT NULL and UNIQUE are enforced, foreign   *)
(* keys are not.                                                           *)
(***************************************************************************)
UserOps == {"register", "list", "read", "update", "delete"}

\* what POST /user may carry: a username that is new at first, the admin
\* role or a role id that is not stored (role_id is not validated), one
\* password
RegisterNames == {"ghost"}
RegisterRoleIds == {1, 3}
RegisterPassword == "ghostpass"
TargetIds == 1..MaxUsers

\* the requests to the /user endpoints: POST /user with a body, DELETE
\* /user/{user_id} for every id, GET /user, and GET and PUT /user/2
OwnerRequests ==
    [op : {"register"}, user_id : {0}, username : RegisterNames,
     role_id : RegisterRoleIds]
    \cup [op : {"delete"}, user_id : TargetIds, username : {""}, role_id : {0}]

UserRequests ==
    OwnerRequests
    \cup [op : {"list"}, user_id : {0}, username : {""}, role_id : {0}]
    \cup [op : {"read"}, user_id : {2}, username : {""}, role_id : {0}]
    \cup [op : {"update"}, user_id : {2}, username : {"ghost"}, role_id : {1}]

\* the logins that succeed at the start
Credentials ==
    {[username |-> ADMIN_USERNAME, password |-> ADMIN_PASSWORD],
     [username |-> "alice", password |-> "alicepass"]}

\* what a client presents as bearer token to a /user endpoint: the token it
\* holds, or something that is no JWT
BearerKinds == {"none", "malformed"}
Bearer(kind, tok) ==
    IF kind = "malformed" THEN [tok EXCEPT !.wellformed = FALSE] ELSE tok

\* the requests with the bearer token they carry: each request with the
\* token held, and GET /user also with something that is no JWT (all five
\* endpoints run the same dependency before anything else)
UserCalls ==
    [kind : {"none"}, q : UserRequests]
    \cup [kind : {"malformed"}, q : {x \in UserRequests : x.op = "list"}]

Ok200 == [status |-> 200, detail |-> "", headers |-> NoHeaders,
          access_token |-> NoToken, refresh_token |-> 0]

\* An endpoint guard that lets every authenticated user through.
require_admin_any_role(r, token) ==
    LET c == get_current_user(r, token)
    IN  IF c.exc # NoResponse THEN [ok |-> FALSE, resp |-> c.exc]
        ELSE [ok |-> TRUE, resp |-> NoResponse]

\* user_router.py 23-30 (and 36-39, 46-49, 57-60, 67-70): the dependency
\* get_current_user, then the check of role_id, the same in all five
\* endpoints
require_admin(r, token) ==
    LET c == get_current_user(r, token)
    IN  IF c.exc # NoResponse THEN [ok |-> FALSE, resp |-> c.exc]
        ELSE IF c.user.role_id # 1
        THEN [ok |-> FALSE,
              resp |-> HTTPException(403, "No autorizado. Se requiere rol admin.",
                                     NoHeaders)]
        ELSE [ok |-> TRUE, resp |-> NoResponse]

\* models.py 39 on SQLite: the id the next INSERT into users gets
next_user_id ==
    IF users = {} THEN 1
    ELSE (CHOOSE i \in {u.id : u \in users} : \A u \in users : u.id <= i) + 1

\* crud.py 11-20 with user_service.py 13-14: the row added; the password
\* arrives hashed
create_user_from_schema(username, password, role_id) ==
    [id |-> next_user_id, username |-> username,
     hashed_password |-> get_password_hash(password), role_id |-> role_id]

\* A users table without the UNIQUE constraint on username.
insert_user_conflicts_never(username) == FALSE

\* models.py 40: unique=True makes the commit of crud.py 18 raise
\* IntegrityError when the username is stored
insert_user_conflicts(username) == \E u \in users : u.username = username

\* user_service.py 22-28: `except Exception` also catches the service's
\* own HTTPException 400
register_except(exc) ==
    HTTPException(500, "Error interno en el servicio de creacion del usuario",
                  BasicChallenge)

\* user_service.py 10-12
register_check(username) ==
    IF get_user_by_username(username) # NoUser
    THEN HTTPException(400, "El nombre de usuario ya existe.", NoHeaders)
    ELSE NoResponse

\* user_service.py 13-28
register_insert(username, password, role_id) ==
    IF insert_user_conflicts(username)
    THEN [reason |-> "IntegrityError", resp |-> register_except("IntegrityError"),
          table |-> users]
    ELSE [reason |-> "", resp |-> Ok200,
          table |-> users \cup {create_user_from_schema(username, password, role_id)}]

\* user_service.py 7-28, run without another request in between
register_user_service(username, password, role_id) ==
    LET exc == register_check(username)
    IN  IF exc # NoResponse
        THEN [reason |-> exc.detail, resp |-> register_except(exc), table |-> users]
        ELSE register_insert(username, password, role_id)

\* user_service.py 76-82 and 91-97
edit_except(exc) ==
    HTTPException(500, "Error interno en el servicio al editar el usuario",
                  BasicChallenge)

\* user_service.py 30-48
get_user_list_service == [reason |-> "", resp |-> Ok200, table |-> users]

\* user_service.py 50-67 with user_router.py 43: the service returns one
\* UserResponse or None, the route declares a list, and the framework's
\* validation of the response raises
get_user_service(user_id) ==
    [reason |-> "ResponseValidationError",
     resp |-> HTTPException(500, "Internal Server Error", NoHeaders),
     table |-> users]

\* user_service.py 69-82 with crud.py 33-41: crud.update_user is not a
\* coroutine function; it assigns an attribute to the coroutine object that
\* get_user(db, user_id) returns without await, which raises
\* AttributeError before anything is written
update_user_service(user_id, username, role_id) ==
    [reason |-> "AttributeError", resp |-> edit_except("AttributeError"),
     table |-> users]

\* user_service.py 84-97 with crud.py 116-124 and models.py 45, 51: the
\* delete of a user who has refresh-token rows first sets their user_id to
\* NULL (the relationship has no cascade), which NOT NULL refuses
delete_user_service(user_id) ==
    LET user == get_user(user_id)
    IN  IF user = NoUser
        THEN [reason |-> "El usuario no existe.",
              resp |-> edit_except("El usuario no existe."), table |-> users]
        ELSE IF \E x \in refresh_tokens : x.user_id = user_id
        THEN [reason |-> "IntegrityError", resp |-> edit_except("IntegrityError"),
              table |-> users]
        ELSE [reason |-> "", resp |-> Ok200, table |-> users \ {user}]

\* the service behind each endpoint of user_router.py
user_service(op, user_id, username, role_id) ==
    CASE op = "register" -> register_user_service(username, RegisterPassword, role_id)
      [] op = "list" -> get_user_list_service
      [] op = "read" -> get_user_service(user_id)
      [] op = "update" -> update_user_service(user_id, username, role_id)
      [] op = "delete" -> delete_user_service(user_id)

\* the replica whose create_access_token signed the token
Signer(tok) ==
    CHOOSE r \in Replicas :
        tok.signature = rsa_sign(PRIVATE_PEM[r], tok.header, tok.payload)

\* The client of the login or refresh that has just answered 200 keeps the
\* access token of the response for its next requests; dec describes a
\* request made with the token held and is dropped with it.
KeepToken ==
    /\ req.pc = "done"
    /\ req.resp.access_token # NoToken
    /\ wire.tok # req.resp.access_token
    /\ wire' = [by |-> Signer(req.resp.access_token),
                args |-> [subject |-> req.resp.access_token.payload.sub,
                          user_id |-> req.resp.access_token.payload.user_id,
                          rol |-> req.resp.access_token.payload.rol,
                          expires_delta |-> AccessTtl],
                tok |-> req.resp.access_token]
    /\ dec' = NoDec
    /\ UNCHANGED <<keyvars, lifespan, now, dbvars, req>>

\* user_router.py 20-72: replica r serves one request to a /user endpoint
\* with what the client presents as bearer token, from the dependency to
\* the response, with no other request in between.
UserRequest(r, kind, op, user_id, username, role_id) ==
    /\ AllStarted
    /\ wire.by # 0
    /\ op = "register" => next_user_id <= MaxUsers
    /\ LET token == Bearer(kind, wire.tok)
           a == require_admin(r, token)
       IN  IF a.ok
           THEN LET out == user_service(op, user_id, username, role_id)
                IN  /\ users' = out.table
                    /\ dec' = [by |-> r, op |-> op, issuer |-> wire.by,
                               args |-> wire.args, issued |-> wire.tok,
                               kind |-> kind, presented |-> token,
                               result |-> decode_token(r, token),
                               endpoint |-> [ran |-> TRUE, resp |-> out.resp]]
           ELSE /\ users' = users
                /\ dec' = [by |-> r, op |-> op, issuer |-> wire.by,
                           args |-> wire.args, issued |-> wire.tok,
                           kind |-> kind, presented |-> token,
                           result |-> decode_token(r, token),
                           endpoint |-> [ran |-> FALSE, resp |-> a.resp]]
    /\ UNCHANGED <<keyvars, lifespan, now, wire, roles, refresh_tokens, revoke_ret, req>>

\* user_router.py 20-32: POST /user arrives on replica r; the dependency
\* and the role check run before register_user_service is called
StartRegister(r, kind, username, role_id) ==
    /\ AllStarted
    /\ wire.by # 0
    /\ req.pc \in {"idle", "done"}
    /\ next_user_id <= MaxUsers
    /\ LET a == require_admin(r, Bearer(kind, wire.tok))
       IN  req' = IF a.ok
                  THEN [Idle EXCEPT !.op = "register", !.pc = "register_check",
                                    !.username = username,
                                    !.password = RegisterPassword,
                                    !.user = [NoUser EXCEPT !.role_id = role_id]]
                  ELSE [Idle EXCEPT !.op = "register", !.pc = "done",
                                    !.username = username,
                                    !.reason = a.resp.detail, !.resp = a.resp]
    /\ UNCHANGED <<keyvars, lifespan, now, codecvars, dbvars>>

\* user_service.py 10-12
RegisterCheck ==
    /\ req.pc = "register_check"
    /\ LET exc == register_check(req.username)
       IN  req' = IF exc = NoResponse
                  THEN [req EXCEPT !.pc = "register_insert"]
                  ELSE [req EXCEPT !.pc = "done", !.reason = exc.detail,
                                   !.resp = register_except(exc)]
    /\ UNCHANGED <<keyvars, lifespan, now, codecvars, dbvars>>

\* user_service.py 13-28
RegisterInsert ==
    /\ req.pc = "register_insert"
    /\ LET i == register_insert(req.username, req.password, req.user.role_id)
       IN  /\ req' = [req EXCEPT !.pc = "done", !.reason = i.reason,
                                 !.resp = i.resp]
           /\ users' = i.table
    /\ UNCHANGED <<keyvars, lifespan, now, codecvars, roles, refresh_tokens, revoke_ret>>

(***************************************************************************)
(* main.py: the application lifespan of one replica, with the calls it     *)
(* makes to the Consul client, the database engine and the broker          *)
(* (broker/auth_broker_service.py).  Every call may return or raise.       *)
(***************************************************************************)
LifespanCalls ==
    {"get_consul_client", "register_self", "create_all", "init_db",
     "publish_running", "create_task", "yield", "dispose",
     "publish_not_running", "deregister_self", "aclose"}

\* auth_broker_service.py 98-119: what a publish_auth_status call can do.
\* It raises without publishing when get_channel, declare_exchange or the
\* publish raises; it publishes and returns; or it publishes and raises
\* because connection.close() in its finally block raises.
publish_auth_status ==
    {[published |-> FALSE, raised |-> TRUE],
     [published |-> TRUE, raised |-> FALSE],
     [published |-> TRUE, raised |-> TRUE]}

\* what any other call can do
Returns == [published |-> FALSE, raised |-> FALSE]
Raises == [published |-> FALSE, raised |-> TRUE]
Outcomes == {Returns, Raises}

\* main.py 46-100: where control goes after a call returned or raised.
\* Line 46 is outside the try statement; a raise of lines 56-70 enters the
\* finally block; lines 72-77, 85-88, 91-95 and 97-100 catch Exception;
\* line 84 is inside the finally block and not wrapped.
lifespan_next(call, raised) ==
    CASE call = "get_consul_client" -> IF raised THEN "exited" ELSE "register_self"
      [] call = "register_self" -> IF raised THEN "dispose" ELSE "create_all"
      [] call = "create_all" -> IF raised THEN "dispose" ELSE "init_db"
      [] call = "init_db" -> IF raised THEN "dispose" ELSE "publish_running"
      [] call = "publish_running" -> "create_task"
      [] call = "create_task" -> "yield"
      [] call = "yield" -> "dispose"
      [] call = "dispose" -> IF raised THEN "exited" ELSE "publish_not_running"
      [] call = "publish_not_running" -> "deregister_self"
      [] call = "deregister_self" -> "aclose"
      [] call = "aclose" -> "exited"

\* one entry of the record of calls
Called(call, outcome) ==
    [call |-> call, raised |-> outcome.raised, published |-> outcome.published]

NotStarted == [pc |-> "get_consul_client", log |-> <<>>, task |-> "none"]

\* the lifespan of a replica that started without a failure and serves
Serving ==
    [pc |-> "yield",
     log |-> <<Called("get_consul_client", Returns), Called("register_self", Returns),
               Called("create_all", Returns), Called("init_db", Returns),
               Called("publish_running", [published |-> TRUE, raised |-> FALSE]),
               Called("create_task", Returns),
               Called("delayed_publish_running",
                      [published |-> TRUE, raised |-> FALSE])>>,
     task |-> "done"]

InitLifespan == lifespan = NotStarted

\* the database before create_all
InitEmptyDb ==
    /\ roles = {}
    /\ users = {}
    /\ refresh_tokens = {}
    /\ revoke_ret = NoRevoke

\* sql/__init__.py 16-24: the roles table after the loop over "admin", "user"
add_role(table, name) ==
    IF \E x \in table : x.name = name THEN table
    ELSE table \cup {[id |-> Cardinality(table) + 1, name |-> name]}

init_db_roles == add_role(add_role(roles, "admin"), "user")

\* sql/__init__.py 27-52: the users table after the admin user was added
\* if missing
init_db_users ==
    IF \E u \in users : u.username = ADMIN_USERNAME THEN users
    ELSE users \cup
         {[id |-> next_user_id, username |-> ADMIN_USERNAME,
           hashed_password |-> get_password_hash(ADMIN_PASSWORD),
           role_id |-> (CHOOSE x \in init_db_roles : x.name = "admin").id]}

\* the lifespan makes the call it stands at, with the given outcome
LifespanCall(call, outcome) ==
    /\ lifespan.pc = call
    /\ lifespan' = [lifespan EXCEPT
                      !.pc = lifespan_next(call, outcome.raised),
                      !.log = Append(@, Called(call, outcome)),
                      !.task = IF call = "create_task" THEN "sleeping" ELSE @]

\* main.py 46, 56, 59-65, 84, 91-95, 97-100: calls that do not publish and
\* do not write the tables
LifespanStep(call, outcome) ==
    /\ call \in {"get_consul_client", "register_self", "create_all", "dispose",
                 "deregister_self", "aclose"}
    /\ LifespanCall(call, outcome)
    /\ UNCHANGED <<keyvars, now, codecvars, dbvars, req>>

\* main.py 68-70: init_db, which fills the tables when it returns
InitDbStep(outcome) ==
    /\ LifespanCall("init_db", outcome)
    /\ roles' = IF outcome.raised THEN roles ELSE init_db_roles
    /\ users' = IF outcome.raised THEN users ELSE init_db_users
    /\ UNCHANGED <<keyvars, now, codecvars, refresh_tokens, revoke_ret, req>>

\* main.py 72-77 and 85-88: publish_auth_status("running") and
\* publish_auth_status("not_running")
PublishStep(call, outcome) ==
    /\ call \in {"publish_running", "publish_not_running"}
    /\ LifespanCall(call, outcome)
    /\ UNCHANGED <<keyvars, now, codecvars, dbvars, req>>

\* main.py 79: asyncio.create_task(_publish_running_delayed())
CreateTask ==
    /\ LifespanCall("create_task", Returns)
    /\ UNCHANGED <<keyvars, now, codecvars, dbvars, req>>

\* main.py 81: the application serves until the server stops it
Yield ==
    /\ LifespanCall("yield", Returns)
    /\ UNCHANGED <<keyvars, now, codecvars, dbvars, req>>

\* main.py 30-39: one second after its creation the task publishes
\* 'running' again, whatever the lifespan is doing by then; the task ends
\* with the event loop
DelayedPublish(outcome) ==
    /\ lifespan.task = "sleeping"
    /\ lifespan.pc # "exited"
    /\ lifespan' = [lifespan EXCEPT
                      !.log = Append(@, Called("delayed_publish_running", outcome)),
                      !.task = "done"]
    /\ UNCHANGED <<keyvars, now, codecvars, dbvars, req>>

\* The deployment after its replicas imported core/security.py one after
\* the other against a reliable store: the first generated the keypair,
\* the others loaded it.
InitStarted ==
    /\ secrets = [n \in SecretNames |->
                    IF n = PRIVATE_KEY_SECRET_NAME THEN PrivatePem(1)
                    ELSE PublicPem(1)]
    /\ rpc = [r \in Replicas |-> "done"]
    /\ private_pem = [r \in Replicas |-> None]
    /\ public_pem = [r \in Replicas |-> None]
    /\ PRIVATE_PEM = [r \in Replicas |-> PrivatePem(1)]
    /\ PUBLIC_PEM = [r \in Replicas |-> PublicPem(1)]
    /\ container_key = [r \in Replicas |-> PublicPem(1)]
    /\ nputs = 2
    /\ faults = 0

NextKeys == \E r \in Replicas : ensure_rsa_keys(r)

NextStoreErrors == \E r \in Replicas : ensure_rsa_keys_store_error(r)

NextCodec ==
    \/ \E r \in Replicas, subject \in Subjects, user_id \in UserIds,
          rol \in RoleNames, ttl \in Ttls : Issue(r, subject, user_id, rol, ttl)
    \/ \E r \in Replicas, p \in Presentations(wire.tok) : Decode(r, p)
    \/ Tick

NextAuth ==
    \/ \E username \in Usernames, password \in Passwords :
          StartLogin(username, password)
    \/ LoginGetUser
    \/ \E r \in Replicas, token \in TokenValues, later \in Instants :
          LoginIssue(r, token, later)
    \/ \E token_str \in RequestTokens : StartRefresh(token_str)
    \/ RefreshGetToken
    \/ RefreshGetUser
    \/ \E r \in Replicas : RefreshIssue(r)
    \/ \E token_str \in RequestTokens : Revoke(token_str)
    \/ \E token_str \in RequestTokens, aware \in BOOLEAN : Validate(token_str, aware)
    \/ \E token_str \in RequestTokens : Logout(token_str)
    \/ Tick

\* Login and refresh while users' roles change.
NextRoles ==
    \/ \E username \in Usernames, password \in Passwords :
          StartLogin(username, password)
    \/ LoginGetUser
    \/ \E r \in Replicas, token \in TokenValues, later \in Instants :
          LoginIssue(r, token, later)
    \/ \E token_str \in RequestTokens : StartRefresh(token_str)
    \/ RefreshGetToken
    \/ RefreshGetUser
    \/ \E r \in Replicas : RefreshIssue(r)
    \/ \E user_id \in UserIds, role_id \in RoleIds : SetRole(user_id, role_id)
    \/ Tick

\* Login, refresh and revoke while logins may end after their commit.
NextAbort ==
    \/ \E username \in Usernames, password \in Passwords :
          StartLogin(username, password)
    \/ LoginGetUser
    \/ \E r \in Replicas, token \in TokenValues, later \in Instants :
          LoginIssue(r, token, later)
    \/ \E r \in Replicas, token \in TokenValues, later \in Instants,
          cause \in AbortCauses : LoginAbort(r, token, later, cause)
    \/ \E token_str \in RequestTokens : StartRefresh(token_str)
    \/ RefreshGetToken
    \/ RefreshGetUser
    \/ \E r \in Replicas : RefreshIssue(r)
    \/ \E token_str \in RequestTokens : Revoke(token_str)
    \/ Tick

\* Login next to the user management endpoints.
NextUsers ==
    \/ \E c \in Credentials : StartLogin(c.username, c.password)
    \/ LoginGetUser
    \/ \E r \in Replicas, token \in TokenValues, later \in Instants :
          LoginIssue(r, token, later)
    \/ KeepToken
    \/ \E r \in Replicas, c \in UserCalls :
          UserRequest(r, c.kind, c.q.op, c.q.user_id, c.q.username, c.q.role_id)
    \/ Tick

\* Login next to POST /user requests that overlap one another and
\* DELETE /user/{user_id}.
NextRegister ==
    \/ \E c \in Credentials : StartLogin(c.username, c.password)
    \/ LoginGetUser
    \/ \E r \in Replicas, token \in TokenValues, later \in Instants :
          LoginIssue(r, token, later)
    \/ KeepToken
    \/ \E r \in Replicas, q \in OwnerRequests :
          UserRequest(r, "none", q.op, q.user_id, q.username, q.role_id)
    \/ \E r \in Replicas, kind \in BearerKinds, username \in RegisterNames,
          role_id \in RegisterRoleIds :
          StartRegister(r, kind, username, role_id)
    \/ RegisterCheck
    \/ RegisterInsert
    \/ Tick

\* Login and refresh while users are registered and deleted.
NextOwners ==
    \/ \E c \in Credentials : StartLogin(c.username, c.password)
    \/ LoginGetUser
    \/ \E r \in Replicas, token \in TokenValues, later \in Instants :
          LoginIssue(r, token, later)
    \/ \E token_str \in RequestTokens : StartRefresh(token_str)
    \/ RefreshGetToken
    \/ RefreshGetUser
    \/ \E r \in Replicas : RefreshIssue(r)
    \/ KeepToken
    \/ \E r \in Replicas, q \in OwnerRequests :
          UserRequest(r, "none", q.op, q.user_id, q.username, q.role_id)
    \/ Tick

\* One replica's lifespan from its start to its exit.
NextLifespan ==
    \/ \E call \in LifespanCalls, outcome \in Outcomes : LifespanStep(call, outcome)
    \/ \E outcome \in Outcomes : InitDbStep(outcome)
    \/ \E call \in LifespanCalls, outcome \in publish_auth_status :
          PublishStep(call, outcome)
    \/ CreateTask
    \/ Yield
    \/ \E outcome \in publish_auth_status : DelayedPublish(outcome)

Init == InitKeys /\ InitCodec /\ InitDb /\ InitReq /\ InitLifespan

Next == NextKeys \/ NextStoreErrors \/ NextCodec \/ NextAuth \/ NextRoles
           \/ NextAbort \/ NextUsers \/ NextRegister \/ NextOwners
           \/ NextLifespan

Spec == Init /\ [][Next]_vars

\* Replica startup alone, with a secret store that may fail.
SpecKeys == Init /\ [][NextKeys \/ NextStoreErrors]_vars

\* Replica startup against a reliable store, then the token codec.
SpecCodec == Init /\ [][NextKeys \/ NextCodec]_vars

\* The started deployment serving login, refresh, revoke, validate and
\* requests for a logout.
InitAuth == InitStarted /\ InitCodec /\ InitDb /\ InitReq /\ lifespan = Serving

SpecAuth == InitAuth /\ [][NextAuth]_vars

\* The started deployment serving login and refresh while roles change.
SpecRoles == InitAuth /\ [][NextRoles]_vars

\* The started deployment serving login, refresh and revoke, with logins
\* that fail or are cancelled after their commit.
SpecAbort == InitAuth /\ [][NextAbort]_vars

\* The started deployment serving login and the /user endpoints.
SpecUsers == InitAuth /\ [][NextUsers]_vars

\* The started deployment serving login and registrations that overlap.
SpecRegister == InitAuth /\ [][NextRegister]_vars

\* A replica that has imported its modules (key material loaded) runs its
\* lifespan against a database without tables.
InitBoot == InitStarted /\ InitCodec /\ InitEmptyDb /\ InitReq /\ InitLifespan

SpecLifespan == InitBoot /\ [][NextLifespan]_vars

\* The started deployment serving login and refresh while an admin
\* registers and deletes users.
SpecOwners == InitAuth /\ [][NextOwners]_vars

(***************************************************************************)
(* Properties.                                                             *)
(***************************************************************************)

\* C1: when the replicas run ensure_rsa_keys concurrently against one
\* shared, initially empty secret store that answers every call, the store
\* ends up holding exactly one keypair, each half written once, and all
\* replicas return the same (private, public) key material.
C1_OneKeypairAllReplicasAgree ==
    (AllStarted /\ faults = 0) =>
        /\ secret_exists(PRIVATE_KEY_SECRET_NAME)
        /\ secrets[PUBLIC_KEY_SECRET_NAME] = public_key(secrets[PRIVATE_KEY_SECRET_NAME])
        /\ nputs = 2
        /\ \A r1, r2 \in Replicas :
              /\ PRIVATE_PEM[r1] = PRIVATE_PEM[r2]
              /\ PUBLIC_PEM[r1] = PUBLIC_PEM[r2]

BadSignature == [raised |-> "Invalid signature - check your RSA keys",
                 payload |-> NoPayload]

\* C2: a token obtained from a validly issued token by altering its
\* signature to bytes that no private key of the deployment produced over
\* that header and payload never decodes: decode_token raises the
\* invalid-signature ValueError on every replica, at every time.
C2_AlteredSignatureIsBadSignature ==
    dec.kind = "signature" => dec.result = BadSignature

\* C2 witness: a replica holding the public half of the issuer's key
\* decodes, before the expiry, a token whose signature was replaced by the
\* issuer key's signature over another payload.
C2_Witness ==
    /\ dec.kind = "signature"
    /\ dec.presented.signature.kid = PUBLIC_PEM[dec.by].kid
    /\ PUBLIC_PEM[dec.by] = public_key(PRIVATE_PEM[dec.issuer])
    /\ now < dec.issued.payload.exp
    /\ dec.result = BadSignature

\* C3: decode_token(create_access_token(subject, user_id, rol, ttl)) on the
\* issuing replica at any time before the expiry returns claims whose sub,
\* user_id and rol are the inputs and whose exp is iat + ttl.
C3_RoundTrip ==
    (dec.kind = "none" /\ dec.by = dec.issuer /\ now < dec.issued.payload.exp) =>
        /\ dec.result.raised = ""
        /\ dec.result.payload.sub = dec.args.subject
        /\ dec.result.payload.user_id = dec.args.user_id
        /\ dec.result.payload.rol = dec.args.rol
        /\ dec.result.payload.exp = dec.result.payload.iat + dec.args.expires_delta

\* the request names a stored user and the password that user's hash was
\* made from / a stored user and another password
Matching(q) ==
    \E u \in users :
        u.username = q.username /\ u.hashed_password = get_password_hash(q.password)

WrongPassword(q) ==
    \E u \in users :
        u.username = q.username /\ u.hashed_password # get_password_hash(q.password)

StoredUser(q) == CHOOSE u \in users : u.username = q.username

\* this step ends a login_service call
LoginCompletes == req.op = "login" /\ req.pc # "done" /\ req'.pc = "done"

InvalidCredentials == HTTPException(401, "Credenciales invalidas", BasicChallenge)

C5_WrongPasswordNoTokensNoRecord ==
    [][(/\ req.op = "login"
        /\ req.pc \in {"login_user", "login_role"}
        /\ WrongPassword(req)
        /\ req' # req) =>
         /\ req'.pc = "done"
         /\ req'.resp = InvalidCredentials
         /\ req'.resp.access_token = NoToken
         /\ req'.resp.refresh_token = 0
         /\ refresh_tokens' = refresh_tokens]_vars

\* C5 witness: a login with a wrong password was refused while the table
\* held rows.
C5_Witness ==
    /\ req.op = "login" /\ req.pc = "done"
    /\ WrongPassword(req)
    /\ req.resp.status = 401
    /\ refresh_tokens # {}

\* C6: the response of a refused login (status, detail, headers) is the
\* response any other request with a missing user or a wrong password gets
\* in the same state: a missing user and a wrong password cannot be told
\* apart.
C6_LoginFailureIndistinguishable ==
    [][(LoginCompletes /\ req.pc = "login_user" /\ ~Matching(req)) =>
         \A username \in Usernames, password \in Passwords :
            ~Matching([username |-> username, password |-> password]) =>
               Visible(req'.resp) =
                  Visible(login_authenticate(username, password).exc)]_vars

\* C6 witness: a login for a username that is not stored was refused while
\* stored users exist whose password could be mistyped.
C6_Witness ==
    /\ req.op = "login" /\ req.pc = "done"
    /\ req.username = "ghost"
    /\ req.resp.status = 401
    /\ \E u \in users : u.username \in Usernames

\* C7: when a login_service call ends with any token in its response, it
\* carries both tokens and this call's refresh-token row has been
\* committed; when the INSERT failed, the response has status 500, carries
\* no token, and the table is unchanged.
C7_LoginAtomic ==
    [][LoginCompletes =>
         /\ (\/ req'.resp.status = 200
             \/ req'.resp.access_token # NoToken
             \/ req'.resp.refresh_token # 0) =>
               /\ req'.resp.status = 200
               /\ req'.resp.access_token # NoToken
               /\ \E x \in refresh_tokens' \ refresh_tokens :
                     /\ x.token = req'.resp.refresh_token
                     /\ x.user_id = req.user.id
         /\ req'.reason = "IntegrityError" =>
               /\ req'.resp.status = 500
               /\ req'.resp.access_token = NoToken
               /\ req'.resp.refresh_token = 0
               /\ refresh_tokens' = refresh_tokens]_vars

\* C7 witness: a login whose refresh token string was already stored
\* failed.
C7_Witness ==
    /\ req.op = "login" /\ req.pc = "done"
    /\ req.reason = "IntegrityError"
    /\ req.resp.status = 500

\* C8: refresh_token_service called with a refresh token that is not in
\* the store ends with HTTP 401 and no access token.
C8_UnknownRefreshTokenIs401 ==
    (/\ req.op = "refresh" /\ req.pc = "done"
     /\ req.reason = "Refresh token invalido") =>
        /\ req.resp.status = 401
        /\ req.resp.access_token = NoToken

\* C9: the response of a refresh refused at the token check is the
\* response every other refused token string (not found, revoked or
\* expired) gets in the same state.
C9_RefreshFailureIndistinguishable ==
    [][(req.op = "refresh" /\ req.pc = "refresh_token" /\ req'.pc = "done") =>
         \A t \in RequestTokens :
            refresh_token_check(get_refresh_token(t)) # NoResponse =>
               Visible(req'.resp) =
                  Visible(refresh_except(refresh_token_check(get_refresh_token(t))))]_vars

\* C9 witness: a refresh was refused while the table held a revoked row and
\* an expired row that is not revoked, and some token string is unknown.
C9_Witness ==
    /\ req.op = "refresh" /\ req.pc = "done"
    /\ req.reason = "Refresh token expirado o revocado"
    /\ \E x \in refresh_tokens : x.revoked
    /\ \E x \in refresh_tokens : ~x.revoked /\ x.expires_at < now
    /\ \E t \in RequestTokens : get_refresh_token(t) = NoRefreshToken

\* a refresh_token_service / validate_refresh_token call refused the token
Rejected(q) ==
    /\ q.resp.status # 200
    /\ q.resp.access_token = NoToken
    /\ q.reason # "User"
    /\ q.user = NoUser

\* C10: a refresh_token_service or validate_refresh_token call that starts
\* when the token's row is revoked or the clock is past its expires_at
\* rejects the token; and no step removes a row, changes its expires_at,
\* sets revoked back to false or moves the clock backwards.
C10_RevokedExpiredAbsorbing ==
    /\ []((req.op \in {"refresh", "validate"} /\ req.pc = "done"
           /\ req.started_dead) => Rejected(req))
    /\ [][/\ now' >= now
          /\ \A x \in refresh_tokens :
                \E y \in refresh_tokens' :
                   /\ y.token = x.token
                   /\ y.expires_at = x.expires_at
                   /\ (x.revoked => y.revoked)]_vars

\* C10 witness: a refresh with a revoked, unexpired token was refused after
\* a later login had added another row.
C10_Witness ==
    /\ req.op = "refresh" /\ req.pc = "done"
    /\ req.started_dead
    /\ req.db_token.revoked
    /\ req.db_token.expires_at > now
    /\ \E x \in refresh_tokens : x.id > req.db_token.id
    /\ Rejected(req)

\* the record is one that the spec's isValid accepts at the current clock
IsValid(x) == x # NoRefreshToken /\ ~x.revoked /\ x.expires_at > now

\* C11: at every clock value and for every token string, the inline check
\* of refresh_token_service and crud.validate_refresh_token both accept
\* the token exactly when its row exists, is not revoked and has
\* expires_at strictly greater than now.
C11_AcceptedIffValid ==
    \A t \in RequestTokens :
        LET x == get_refresh_token(t)
        IN  /\ (refresh_token_check(x) = NoResponse) <=> IsValid(x)
            /\ \A aware \in BOOLEAN :
                  (validate_refresh_token(t, aware) = "User") <=> IsValid(x)

\* C12: a revoke_refresh_token call returns whether a row holds the token
\* string; when none does nothing changes; when one does, that row ends
\* revoked, no other field and no other row changes; and revoking the same
\* token string again would leave the table as this call left it.
C12_RevokeContract ==
    [][revoke_ret' # revoke_ret =>
         LET t == revoke_ret'.token_str
             found == \E x \in refresh_tokens : x.token = t
         IN  /\ revoke_ret'.returned = found
             /\ ~found => refresh_tokens' = refresh_tokens
             /\ found =>
                   /\ \E x \in refresh_tokens :
                         /\ x.token = t
                         /\ refresh_tokens' =
                               (refresh_tokens \ {x}) \cup {[x EXCEPT !.revoked = TRUE]}
                   /\ \A y \in refresh_tokens' : y.token = t => y.revoked
             /\ \A again \in RequestTokens :
                   again = t => (revoke_refresh_token(again))' = refresh_tokens'
             /\ UNCHANGED <<users, roles>>]_vars

\* C12 witness: a revoke call found its row and revoked it, a second call
\* on the same string left the row revoked, and another row is untouched.
C12_Witness ==
    /\ revoke_ret.returned
    /\ \E x \in refresh_tokens : x.token = revoke_ret.token_str /\ x.revoked
    /\ \E x \in refresh_tokens : x.token # revoke_ret.token_str /\ ~x.revoked
    /\ revoke_refresh_token(revoke_ret.token_str) = refresh_tokens

\* C13: a logout request with a refresh token string succeeds for the
\* caller, whatever the token's state, and leaves the token's row, if
\* there is one, revoked.
C13_LogoutAlwaysSucceeds ==
    (req.op = "logout" /\ req.pc = "done") =>
        /\ req.resp.status = 200
        /\ \A x \in refresh_tokens : x.token = req.token_str => x.revoked

\* C14: no two rows of refresh_tokens ever hold the same token string; a
\* login whose INSERT hits a stored token string ends with an error
\* status and no tokens and changes no table, and a login that returns a
\* refresh token returns one that was not stored before.
C14_TokenValuesUnique ==
    /\ [](\A x, y \in refresh_tokens : x.token = y.token => x = y)
    /\ [][(LoginCompletes /\ req.pc = "login_role") =>
            /\ req'.reason = "IntegrityError" =>
                  /\ req'.resp.status >= 400
                  /\ req'.resp.access_token = NoToken
                  /\ req'.resp.refresh_token = 0
                  /\ UNCHANGED <<users, roles, refresh_tokens>>
            /\ req'.resp.status = 200 =>
                  /\ \A x \in refresh_tokens : x.token # req'.resp.refresh_token
                  /\ Cardinality(refresh_tokens') = Cardinality(refresh_tokens) + 1]_vars

\* C14 witness: every token string is stored, each once, and a login that
\* drew one of them again has failed.
C14_Witness ==
    /\ req.op = "login" /\ req.pc = "done"
    /\ req.reason = "IntegrityError"
    /\ req.resp.access_token = NoToken
    /\ {x.token : x \in refresh_tokens} = TokenValues
    /\ Cardinality(refresh_tokens) = MaxTokens

\* this step is one in which the secret store raised
StoreRaised == faults' > faults

\* C15: when a create_secret call of replica r raises, the step does not
\* bring r to the started state and r's PRIVATE_PEM / PUBLIC_PEM stay
\* unassigned: the replica never serves with the unpersisted keypair.
C15_PersistFailureIsFatal ==
    [][\A r \in Replicas :
          (rpc[r] \in {"put_private", "put_public"} /\ rpc'[r] # rpc[r]
           /\ StoreRaised) =>
             /\ rpc'[r] # "done"
             /\ PRIVATE_PEM'[r] = None
             /\ PUBLIC_PEM'[r] = None]_vars

\* C16: when a get_secret call of replica r raises although both secrets
\* are stored, or the private half was read and the public half is not
\* there, r does not go on to generate a keypair and write it to the store.
C16_LoadFailureIsFatal ==
    [][\A r \in Replicas :
          (/\ rpc'[r] # rpc[r]
           /\ \/ /\ rpc[r] \in {"get_private", "get_public"}
                 /\ StoreRaised
                 /\ \A n \in SecretNames : secret_exists(n)
              \/ rpc[r] = "get_public" /\ ~secret_exists(PUBLIC_KEY_SECRET_NAME)) =>
             /\ rpc'[r] \notin {"put_private", "put_public"}
             /\ private_pem'[r] # PrivatePem(r)
             /\ public_pem'[r] # PublicPem(r)]_vars

\* C17: while the store answers every call, a call that finds both secrets
\* stored goes on to read the public half without writing; a call that
\* returns through the load path returns exactly the two keys the store
\* holds and has written nothing.
C17_LoadIsIdempotent ==
    [][\A r \in Replicas :
          /\ (/\ rpc[r] = "get_private" /\ rpc'[r] # rpc[r] /\ faults' = 0
              /\ \A n \in SecretNames : secret_exists(n)) =>
                /\ rpc'[r] = "get_public"
                /\ secrets' = secrets
                /\ nputs' = nputs
          /\ (rpc[r] = "get_public" /\ rpc'[r] = "done" /\ faults' = 0) =>
                /\ PRIVATE_PEM'[r] = secrets[PRIVATE_KEY_SECRET_NAME]
                /\ PUBLIC_PEM'[r] = secrets[PUBLIC_KEY_SECRET_NAME]
                /\ secrets' = secrets
                /\ nputs' = nputs]_vars

TokenErrors ==
    {"Token expired", "Invalid signature - check your RSA keys",
     "Algorithm mismatch - check settings.ALGORITHM", "Malformed token"}

Generated(r) == private_pem[r] = PrivatePem(r) \/ PRIVATE_PEM[r] = PrivatePem(r)

\* C20: at most one replica at a time is between generating a keypair and
\* the end of its writes, and while the store answers every call at most
\* one replica generates at all.
C20_GenerationIsExclusive ==
    /\ Cardinality({r \in Replicas : rpc[r] \in {"put_private", "put_public"}}) <= 1
    /\ faults = 0 => Cardinality({r \in Replicas : Generated(r)}) <= 1

\* C21: in every state of the secret store the two secrets hold the two
\* halves of one keypair: the stored public key is the public half of the
\* stored private key, and neither secret is stored without the other.
C21_StoredHalvesMatch ==
    /\ secret_exists(PRIVATE_KEY_SECRET_NAME) <=> secret_exists(PUBLIC_KEY_SECRET_NAME)
    /\ secret_exists(PRIVATE_KEY_SECRET_NAME) =>
           get_secret(PUBLIC_KEY_SECRET_NAME)
               = public_key(get_secret(PRIVATE_KEY_SECRET_NAME))

\* C22: a stored refresh-token row is never deleted and never changes in
\* id, user_id, token or expires_at; its revoked flag changes only from
\* False to True and only in a revoke_refresh_token call for its token
\* string.  No step of login_service or refresh_token_service changes a
\* stored row, and a refresh leaves the table as it was (no row added, the
\* presented row still there), so the token is accepted again unless it
\* has expired or been revoked.
C22_RecordsChangeOnlyByRevoke ==
    [][/\ \A x \in refresh_tokens : \E y \in refresh_tokens' :
              /\ y.id = x.id /\ y.user_id = x.user_id
              /\ y.token = x.token /\ y.expires_at = x.expires_at
              /\ y.revoked # x.revoked =>
                     /\ y.revoked
                     /\ revoke_ret' = [token_str |-> x.token, returned |-> TRUE]
                     /\ req' = req
       /\ (req' # req /\ req'.op = "login") =>
              refresh_tokens \subseteq refresh_tokens'
       /\ (req' # req /\ req'.op = "refresh") =>
              /\ refresh_tokens' = refresh_tokens
              /\ (refresh_token_check(get_refresh_token(req.token_str)))'
                     = refresh_token_check(get_refresh_token(req'.token_str))
      ]_vars

\* C22 witness: a refresh has just answered 200 for a token whose row is
\* still stored exactly as the refresh read it, still accepted, while the
\* other stored row has been revoked by revoke_refresh_token.
C22_Witness ==
    /\ req.op = "refresh" /\ req.pc = "done" /\ req.resp.status = 200
    /\ req.db_token \in refresh_tokens
    /\ refresh_token_check(get_refresh_token(req.token_str)) = NoResponse
    /\ revoke_ret.returned
    /\ \E x \in refresh_tokens : x.token = revoke_ret.token_str /\ x.revoked
    /\ Cardinality(refresh_tokens) = 2

\* C23: a login_service call that answers 200 works on one snapshot: the
\* users row it read at its start was a stored row at that point and the
\* role in the access token is the name of that row's role, whatever
\* happens to the user's role meanwhile; and the access token and the
\* refresh-token row carry one issuance instant: the row's expires_at is
\* the token's iat plus the refresh lifetime.
C23_LoginSingleSnapshot ==
    [][/\ (req.pc = "login_user" /\ req'.pc = "login_role") =>
              req'.user \in users
       /\ (LoginCompletes /\ req'.resp.status = 200) =>
              LET tok == req'.resp.access_token
              IN  /\ \E x \in roles : x.id = req.user.role_id
                                      /\ x.name = tok.payload.rol
                  /\ \E x \in refresh_tokens' \ refresh_tokens :
                        /\ x.token = req'.resp.refresh_token
                        /\ x.expires_at = tok.payload.iat + RefreshTtl
      ]_vars

\* this step ends a login_service call after the commit of its
\* refresh-token row and without its return statement
LoginAborts == LoginCompletes /\ req'.reason \in AbortCauses

\* C24: when a login_service call fails or is cancelled after its
\* refresh-token row was committed and before its response, the row is in
\* the table when the call has ended, owned by the user, not revoked, not
\* expired and accepted by the check of refresh_token_service; and from
\* then on, as for every stored row, nothing removes it and only
\* revoke_refresh_token changes it.
C24_AbortedLoginKeepsRecord ==
    [][/\ LoginAborts =>
              \E x \in refresh_tokens' \ refresh_tokens :
                 /\ x.user_id = req.user.id
                 /\ ~x.revoked
                 /\ x.expires_at > now'
                 /\ (refresh_token_check(x))' = NoResponse
                 /\ (get_refresh_token(x.token))' = x
       /\ \A x \in refresh_tokens : \E y \in refresh_tokens' :
              /\ y.token = x.token /\ y.user_id = x.user_id
              /\ y.expires_at = x.expires_at
              /\ y.revoked # x.revoked => revoke_ret' = [token_str |-> x.token,
                                                        returned |-> TRUE]
      ]_vars

\* C24 witness: alice's login was cancelled after its commit: the client
\* got no response, and the table holds her row, which the check of
\* refresh_token_service accepts.
C24_Witness ==
    /\ req.op = "login" /\ req.pc = "done"
    /\ req.reason = "CancelledError" /\ req.resp = NoResponse
    /\ req.user.username = "alice"
    /\ \E x \in refresh_tokens :
          /\ x.user_id = req.user.id
          /\ refresh_token_check(x) = NoResponse
    /\ Cardinality(refresh_tokens) = 1

\* C25: once every replica has finished startup, every replica's
\* PUBLIC_PEM is the public half of every replica's PRIVATE_PEM, and both
\* are the keypair held in the secret store; and an access token that one
\* replica minted is accepted by decode_token on every replica (the
\* issuer or another) when presented unaltered before it expires.
C25_AnyReplicaAcceptsAnyReplicasToken ==
    AllStarted =>
        /\ \A r \in Replicas, q \in Replicas :
              PUBLIC_PEM[q] = public_key(PRIVATE_PEM[r])
        /\ \A r \in Replicas :
              /\ PRIVATE_PEM[r] = get_secret(PRIVATE_KEY_SECRET_NAME)
              /\ PUBLIC_PEM[r] = get_secret(PUBLIC_KEY_SECRET_NAME)
        /\ (dec.by # 0 /\ dec.kind = "none" /\ now < dec.issued.payload.exp) =>
              /\ dec.result.raised = ""
              /\ dec.result.payload = dec.issued.payload

\* C26: when refresh_token_service answers 200, the access token's sub
\* and user_id are the username and id of the user the presented
\* refresh-token row was created for: the user whose login inserted the
\* row, recorded in the row's user_id and, since no user is renamed, still
\* stored under the username that login used; every other ending of the
\* call (user or role missing) carries no access token.  Rows are created
\* by logins only, for admin (id 1) and alice (id 2).
C26_RefreshTokenIsOwners ==
    [][(req.op = "refresh" /\ req.pc # "done" /\ req'.pc = "done") =>
          LET tok == req'.resp.access_token
          IN  IF req'.resp.status = 200
              THEN /\ tok.payload.user_id = req.db_token.user_id
                   /\ tok.payload.sub =
                         (IF req.db_token.user_id = 1 THEN ADMIN_USERNAME
                          ELSE "alice")
                   /\ get_user(req.db_token.user_id) # NoUser
                   /\ get_role(get_user(req.db_token.user_id).role_id) # NoRole
              ELSE tok = NoToken
      ]_vars

\* this step is a request to a /user endpoint served from the dependency
\* to the response
UserRequestStep == dec'.op \in UserOps /\ (dec' # dec \/ users' # users)

\* the bearer token decodes on the serving replica, its subject is a
\* stored user, and that user's role_id is 1
AdminBearer(r, token) ==
    /\ decode_token(r, token).raised = ""
    /\ \E u \in users : u.username = decode_token(r, token).payload.sub
                        /\ u.role_id = 1

\* C27: a request to one of the five /user endpoints (register, list,
\* read, update, delete) reaches its service exactly when its bearer token
\* decodes, the token's subject is a stored user and that user's role_id
\* is 1 at that moment; every other request is answered 401 (token does
\* not decode), 404 (no such user) or 403 (another role) and leaves the
\* users table as it was.
C27_UserEndpointsAdminOnly ==
    [][UserRequestStep =>
          /\ dec'.endpoint.ran <=> AdminBearer(dec'.by, dec'.presented)
          /\ ~dec'.endpoint.ran =>
                /\ users' = users
                /\ dec'.endpoint.resp.status \in {401, 403, 404}
                /\ (dec'.endpoint.resp.status = 401)
                      <=> decode_token(dec'.by, dec'.presented).raised # ""
                /\ (dec'.endpoint.resp.status = 404)
                      <=> /\ decode_token(dec'.by, dec'.presented).raised = ""
                          /\ get_user_by_username(dec'.presented.payload.sub) = NoUser
      ]_vars

\* C27 witness: alice, who is no admin, asked for the deletion of a user
\* with her own valid token and was answered 403, after the admin had
\* registered a user.
C27_Witness ==
    /\ dec.op = "delete" /\ dec.kind = "none"
    /\ dec.result.raised = ""
    /\ dec.result.payload.sub = "alice"
    /\ ~dec.endpoint.ran
    /\ dec.endpoint.resp.status = 403
    /\ \E u \in users : u.username = "ghost"
    /\ \E u \in users : u.username = "alice" /\ u.role_id = 2

\* no two rows of users share a username
UniqueUsernames ==
    \A u \in users, v \in users : u.username = v.username => u = v

\* this step ends a register_user_service call that other requests may
\* have overlapped
RegisterCompletes ==
    req.op = "register" /\ req.pc # "done" /\ req'.pc = "done"

\* C28: no two users share a username at any time; a step adds at most
\* one user, and only under a username that no stored user has; a
\* register_user_service call, overlapped by other registrations or not,
\* that finds its username stored or collides with it at the INSERT ends
\* with an error status and adds no user, and a call that adds no user
\* ends with an error.
C28_UsernamesUnique ==
    /\ []UniqueUsernames
    /\ [][/\ Cardinality(users' \ users) <= 1
          /\ \A u \in users' \ users : \A v \in users : v.username # u.username
          /\ RegisterCompletes =>
                /\ insert_user_conflicts(req.username) => users' = users
                /\ users' = users <=> req'.resp.status >= 400
          /\ (UserRequestStep /\ dec'.op = "register" /\ dec'.endpoint.ran) =>
                (users' = users <=> dec'.endpoint.resp.status >= 400)
         ]_vars

\* C28 witness: a registration passed its check of the username, another
\* registration of the same username was served meanwhile, and the first
\* collided at its INSERT: it answered 500 and the username is stored
\* once.
C28_Witness ==
    /\ req.op = "register" /\ req.pc = "done"
    /\ req.reason = "IntegrityError"
    /\ req.resp.status = 500
    /\ Cardinality({u \in users : u.username = req.username}) = 1


\* the calls of the shutdown sequence that the lifespan has made, in the
\* order it made them
ShutdownCalls ==
    LET in_finally(e) ==
            e.call \in {"dispose", "publish_not_running", "deregister_self", "aclose"}
        made == SelectSeq(lifespan.log, in_finally)
    IN  [i \in 1..Len(made) |-> made[i].call]

\* every 'running' message that was published came after create_all and
\* init_db had returned
RunningAfterInit ==
    \A i \in 1..Len(lifespan.log) :
       (/\ lifespan.log[i].call \in {"publish_running", "delayed_publish_running"}
        /\ lifespan.log[i].published)
       => \E j, k \in 1..(i - 1) :
             /\ j < k
             /\ lifespan.log[j] = Called("create_all", Returns)
             /\ lifespan.log[k] = Called("init_db", Returns)

\* C29: 'running' is published only after table creation and init_db have
\* completed, and whenever the lifespan has exited, after a normal shutdown
\* or after a startup step that raised, it has called engine dispose,
\* publish 'not_running', Consul deregister and Consul client close, in
\* that order, whether or not publish or deregister failed.
C29_ShutdownSequenceRuns ==
    /\ RunningAfterInit
    /\ lifespan.pc = "exited"
       => ShutdownCalls = <<"dispose", "publish_not_running", "deregister_self", "aclose">>

====
